---- MODULE Spec2Model ----
(***************************************************************************)
(* Model of the ClickHouse native-protocol server of ch-go (server.go):    *)
(* Server.Serve's errgroup worker pool, Server.serve's accept loop,        *)
(* Server.handle and the ServerConn state machine (handshake, packet       *)
(* loop, flush), and of the generated Enum16 column (col_enum16_gen.go).   *)
(***************************************************************************)
EXTENDS Integers, Sequences, FiniteSets, TLC

(***************************************************************************)
(* Bounds of the exploration.                                              *)
(***************************************************************************)
\* Largest pool whose behaviours are explored (ServerOptions.Workers 0..MaxWorkers).
MaxWorkers == 2
\* Connections the listener hands out over the whole run.
MaxConns == 2
\* Packet codes one connection reads (the handshake's code included).
MaxPackets == 3

\* Rows a column holds at most.
MaxRows == 2

\* AppendEnum16 calls made on one array column, and the longest slice given
\* to one call.
MaxAppends == 3
MaxSlice == 2

(***************************************************************************)
(* Program constants.                                                      *)
(***************************************************************************)
\* NewServer: opt.Workers = 100 when the option is 0.
DefaultWorkers == 100

\* proto.ClientCode values (closed enumeration Hello..TablesStatusRequest).
ClientCodeHello == 0
ClientCodePing == 4
ClientCodeTablesStatusRequest == 5

\* ClientCode.IsAClientCode: membership in the closed set of client codes.
IsAClientCode(n) == n \in ClientCodeHello..ClientCodeTablesStatusRequest

\* The raw uvarint values a peer sends as packet code in this model: Hello
\* (valid, without handler in the packet loop), Ping, and a value outside the
\* enumeration.
RawCodes == {ClientCodeHello, ClientCodePing, ClientCodeTablesStatusRequest + 1}

\* ServerHello.EncodeAware: the server Hello packet appended to the buffer
\* (packet code, then the payload).
EncodeServerHello(buf) == buf \o <<"ServerHello", "ServerInfo">>

\* ServerCodePong.Encode: the Pong packet code appended to the buffer.
EncodePong(buf) == buf \o <<"Pong">>

\* Errors of Reader.UVarInt: the stream ended (the Reader's one end-of-stream
\* condition, io.ErrUnexpectedEOF, whether or not a byte was consumed), or a
\* transport read error.
ReadErrors == {"ErrUnexpectedEOF", "read"}

\* Outcomes of ClientHello.Decode on the bytes that follow the Hello code.
HelloOutcomes == {"ok", "decode"} \cup ReadErrors

VARIABLES
  optWorkers,   \* ServerOptions.Workers given to NewServer
  workers,      \* Server.workers
  connCounter,  \* Server.conn, the atomic connection counter
  spawned,      \* iterations of Serve's g.Go loop completed
  pc,           \* pc[w]: position of worker w in serve / handle / Handle
  ret,          \* ret[w]: error returned by worker w's serve
  sconn,        \* sconn[w]: the ServerConn worker w is driving
  ctxErr,       \* ctx.Err() of the errgroup's context
  groupErr,     \* the errgroup's recorded (first) error
  serveRet,     \* what Server.Serve returned, or NotReturned
  accepted,     \* connections returned by ln.Accept so far
  openConns,    \* accepted transport connections on which Close was not called
  ids,          \* the values s.conn.Inc() returned, in order
  logged,       \* number of s.lg.Error("Handle", ...) entries written
  finished,     \* connections for which s.handle has returned
  colData,      \* a ColEnum16 filled by appending values (the column to encode)
  encBuf,       \* Buffer.Buf, the bytes EncodeColumn appends to
  encCount,     \* EncodeColumn calls made on encBuf
  rdr,          \* the bytes the Reader has left to deliver
  dec,          \* the ColEnum16 that DecodeColumn fills
  decRows,      \* the rows argument of the last DecodeColumn call (-1: no call yet)
  decErr,       \* what the last DecodeColumn call returned ("none": no call yet)
  colOp,        \* the last call made on the column, the buffer or the reader
  reused,       \* whether dec has been Reset: the instance is being reused
  arrData,      \* ColArr.Data of an Array(Enum16): the inner ColEnum16
  arrOffsets,   \* ColArr.Offsets
  arrLens,      \* the lengths of the slices given to AppendEnum16, in call order
  arrMode       \* "new", "any" (slices of any kind appended) or "test" (the test's loop)

srvVars ==
  <<optWorkers, workers, connCounter, spawned, pc, ret, sconn, ctxErr, groupErr,
    serveRet, accepted, openConns, ids, logged, finished>>

colVars == <<colData, encBuf, encCount, rdr, dec, decRows, decErr, colOp, reused>>

arrVars == <<arrData, arrOffsets, arrLens, arrMode>>

vars == <<srvVars, colVars, arrVars>>

WorkerIds == 1..MaxWorkers

NoErr == [kind |-> "nil", by |-> 0]
Canceled == [kind |-> "canceled", by |-> 0]
AcceptErr(w) == [kind |-> "accept", by |-> w]
NotReturned == [kind |-> "running", by |-> 0]

\* A worker that is not driving a connection.
NoConn ==
  [id |-> 0, in |-> <<>>, buf |-> <<>>, out |-> <<>>,
   client |-> "none", err |-> "nil", flushes |-> 0, werr |-> "nil", eos |-> "no"]

\* NewServer: the worker count stored in the Server.
NewServerWorkers(opt) == IF opt = 0 THEN DefaultWorkers ELSE opt

\* A zero-value ColEnum16, an empty Buffer, a Reader over no bytes.
ColInit ==
  /\ colData = <<>>
  /\ encBuf = <<>>
  /\ encCount = 0
  /\ rdr = <<>>
  /\ dec = <<>>
  /\ decRows = -1
  /\ decErr = "none"
  /\ colOp = "new"
  /\ reused = FALSE

\* The Server NewServer returns for an option Workers >= 0, before Serve.
ServerInit ==
  /\ optWorkers \in 0..MaxWorkers
  /\ workers = NewServerWorkers(optWorkers)
  /\ connCounter = 0
  /\ spawned = 0
  /\ pc = [w \in WorkerIds |-> "unspawned"]
  /\ ret = [w \in WorkerIds |-> NoErr]
  /\ sconn = [w \in WorkerIds |-> NoConn]
  /\ ctxErr = NoErr
  /\ groupErr = NoErr
  /\ serveRet = NotReturned
  /\ accepted = 0
  /\ openConns = 0
  /\ ids = <<>>
  /\ logged = 0
  /\ finished = 0

\* NewArrEnum16(): an empty inner column, no offsets.
NewArrEnum16 == [Data |-> <<>>, Offsets |-> <<>>]

ArrInit ==
  /\ arrData = NewArrEnum16.Data
  /\ arrOffsets = NewArrEnum16.Offsets
  /\ arrLens = <<>>
  /\ arrMode = "new"

Init == ServerInit /\ ColInit /\ ArrInit

(***************************************************************************)
(* Server.Serve: the errgroup.                                             *)
(***************************************************************************)
\* Serve's loop with the bound off by one (i <= s.workers).
ServeGoOneMore ==
  /\ serveRet = NotReturned
  /\ workers <= MaxWorkers
  /\ spawned <= workers
  /\ spawned' = spawned + 1
  /\ pc' = [w \in WorkerIds |-> IF w = spawned + 1 THEN "serve_top" ELSE pc[w]]
  /\ UNCHANGED <<optWorkers, workers, connCounter, ret, sconn, ctxErr, groupErr,
                 serveRet, accepted, openConns, ids, logged, finished>>
  /\ UNCHANGED <<colVars, arrVars>>

\* One iteration of Serve's loop: g.Go(func() error { return s.serve(ctx, ln) }).
ServeGo ==
  /\ serveRet = NotReturned
  /\ workers <= MaxWorkers
  /\ spawned < workers
  /\ spawned' = spawned + 1
  /\ pc' = [pc EXCEPT ![spawned + 1] = "serve_top"]
  /\ UNCHANGED <<optWorkers, workers, connCounter, ret, sconn, ctxErr, groupErr,
                 serveRet, accepted, openConns, ids, logged, finished>>
  /\ UNCHANGED <<colVars, arrVars>>

\* g.Wait(): blocks until every function passed to Go has returned, then
\* returns the first non-nil error.
ServeWait ==
  /\ serveRet = NotReturned
  /\ workers <= MaxWorkers
  /\ spawned >= workers
  /\ \A w \in 1..spawned : pc[w] = "returned"
  /\ serveRet' = groupErr
  /\ UNCHANGED <<optWorkers, workers, connCounter, spawned, pc, ret, sconn, ctxErr,
                 groupErr, accepted, openConns, ids, logged, finished>>
  /\ UNCHANGED <<colVars, arrVars>>

\* A worker's serve returns err: the errgroup records the first non-nil error
\* and cancels the shared context with it.
WorkerReturn(w, err) ==
  /\ pc' = [pc EXCEPT ![w] = "returned"]
  /\ ret' = [ret EXCEPT ![w] = err]
  /\ IF err.kind # "nil" /\ groupErr.kind = "nil"
       THEN groupErr' = err /\ ctxErr' = Canceled
       ELSE UNCHANGED <<groupErr, ctxErr>>

(***************************************************************************)
(* Server.serve: the accept loop of one worker.                            *)
(***************************************************************************)
\* Top of the loop: if ctx.Err() != nil { return ctx.Err() }.
ServeTop(w) ==
  /\ pc[w] = "serve_top"
  /\ IF ctxErr.kind # "nil"
       THEN WorkerReturn(w, ctxErr)
       ELSE /\ pc' = [pc EXCEPT ![w] = "accept"]
            /\ UNCHANGED <<ret, groupErr, ctxErr>>
  /\ UNCHANGED <<optWorkers, workers, connCounter, spawned, sconn, serveRet,
                 accepted, openConns, ids, logged, finished>>
  /\ UNCHANGED <<colVars, arrVars>>

\* ln.Accept() returns a connection.
AcceptOk(w) ==
  /\ pc[w] = "accept"
  /\ accepted < MaxConns
  /\ accepted' = accepted + 1
  /\ openConns' = openConns + 1
  /\ pc' = [pc EXCEPT ![w] = "handle"]
  /\ UNCHANGED <<optWorkers, workers, connCounter, spawned, ret, sconn, ctxErr,
                 groupErr, serveRet, ids, logged, finished>>
  /\ UNCHANGED <<colVars, arrVars>>

\* ln.Accept() returns an error: serve returns it wrapped.
AcceptFail(w) ==
  /\ pc[w] = "accept"
  /\ WorkerReturn(w, AcceptErr(w))
  /\ UNCHANGED <<optWorkers, workers, connCounter, spawned, sconn, serveRet,
                 accepted, openConns, ids, logged, finished>>
  /\ UNCHANGED <<colVars, arrVars>>

(***************************************************************************)
(* Server.handle and ServerConn.                                           *)
(***************************************************************************)
\* atomic.Uint64.Inc: atomically adds one and returns the new value.
Inc(v) == v + 1

\* handle with a counter that is read and written in two steps (a plain
\* uint64 incremented with c = c + 1): the read parks the value in the
\* connection's id, the write stores it plus one.
HandleStartRacy(w) ==
  /\ \/ /\ pc[w] = "handle"
        /\ sconn[w].id = 0
        /\ sconn' = [sconn EXCEPT ![w].id = connCounter + 1]
        /\ UNCHANGED <<pc, connCounter, ids>>
     \/ /\ pc[w] = "handle"
        /\ sconn[w].id # 0
        /\ connCounter' = sconn[w].id
        /\ ids' = Append(ids, sconn[w].id)
        /\ pc' = [pc EXCEPT ![w] = "handshake"]
        /\ UNCHANGED sconn
  /\ UNCHANGED <<optWorkers, workers, spawned, ret, ctxErr, groupErr, serveRet,
                 accepted, openConns, logged, finished>>
  /\ UNCHANGED <<colVars, arrVars>>

\* Server.handle up to the call of Handle: the connection takes the next
\* value of the counter as its id and gets fresh connection-local state.
HandleStart(w) ==
  /\ pc[w] = "handle"
  /\ connCounter' = Inc(connCounter)
  /\ ids' = Append(ids, Inc(connCounter))
  /\ sconn' = [sconn EXCEPT ![w] = [NoConn EXCEPT !.id = Inc(connCounter)]]
  /\ pc' = [pc EXCEPT ![w] = "handshake"]
  /\ UNCHANGED <<optWorkers, workers, spawned, ret, ctxErr, groupErr, serveRet,
                 accepted, openConns, logged, finished>>
  /\ UNCHANGED <<colVars, arrVars>>

\* Where the stream ended when a read of a packet code failed with e: before
\* the first byte of the code (the peer closed at a packet boundary) or inside
\* it; "no" when the failure is not the end of the stream.
EndOfStream(e) == IF e = "ErrUnexpectedEOF" THEN {"boundary", "inside"} ELSE {"no"}

\* What Reader.UVarInt returns for a packet code: a raw value, or an error.
ReadResults ==
  {[err |-> "nil", n |-> n, eos |-> "no"] : n \in RawCodes}
    \cup UNION {{[err |-> e, n |-> 0, eos |-> o] : o \in EndOfStream(e)} :
                  e \in ReadErrors}

\* ServerConn.packet on the result rd of the uvarint read.
Packet(rd) ==
  IF rd.err # "nil" THEN [code |-> 0, err |-> rd.err]
  ELSE IF ~IsAClientCode(rd.n) THEN [code |-> 0, err |-> "bad_code"]
  ELSE [code |-> rd.n, err |-> "nil"]

\* The raw packet codes the connection has read, rd included when it is one.
Consumed(c, rd) == IF rd.err = "nil" THEN Append(c.in, rd.n) ELSE c.in

\* Handle returns err: the connection's state machine is over.
ConnFail(w, c, err) ==
  /\ sconn' = [sconn EXCEPT ![w] = [c EXCEPT !.err = err]]
  /\ pc' = [pc EXCEPT ![w] = "handled"]

\* Handshake without the comparison with ClientCodeHello: any valid client
\* code starts the Hello decode.
HandshakeAnyCode(w) ==
  /\ pc[w] = "handshake"
  /\ \E rd \in ReadResults :
       LET p == Packet(rd)
           c == [sconn[w] EXCEPT !.in = Consumed(sconn[w], rd), !.eos = rd.eos]
       IN IF p.err # "nil" THEN ConnFail(w, c, p.err)
          ELSE /\ sconn' = [sconn EXCEPT ![w] = c]
               /\ pc' = [pc EXCEPT ![w] = "hello_decode"]
  /\ UNCHANGED <<optWorkers, workers, connCounter, spawned, ret, ctxErr, groupErr,
                 serveRet, accepted, openConns, ids, logged, finished>>
  /\ UNCHANGED <<colVars, arrVars>>

\* ServerConn.handshake, first part: read one packet code, it must be Hello.
Handshake(w) ==
  /\ pc[w] = "handshake"
  /\ \E rd \in ReadResults :
       LET p == Packet(rd)
           c == [sconn[w] EXCEPT !.in = Consumed(sconn[w], rd), !.eos = rd.eos]
       IN IF p.err # "nil" THEN ConnFail(w, c, p.err)
          ELSE IF p.code # ClientCodeHello THEN ConnFail(w, c, "unexpected_packet")
          ELSE /\ sconn' = [sconn EXCEPT ![w] = c]
               /\ pc' = [pc EXCEPT ![w] = "hello_decode"]
  /\ UNCHANGED <<optWorkers, workers, connCounter, spawned, ret, ctxErr, groupErr,
                 serveRet, accepted, openConns, ids, logged, finished>>
  /\ UNCHANGED <<colVars, arrVars>>

\* ServerConn.handshake, second part: decode the client Hello, encode the
\* server Hello into the buffer; the flush follows.
HelloDecode(w) ==
  /\ pc[w] = "hello_decode"
  /\ \E o \in HelloOutcomes :
       IF o # "ok"
         THEN ConnFail(w, [sconn[w] EXCEPT
                             !.eos = IF o = "ErrUnexpectedEOF" THEN "inside"
                                                                ELSE "no"], o)
       ELSE /\ sconn' = [sconn EXCEPT ![w].client = "hello",
                                      ![w].buf = EncodeServerHello(sconn[w].buf)]
            /\ pc' = [pc EXCEPT ![w] = "flush_hello"]
  /\ UNCHANGED <<optWorkers, workers, connCounter, spawned, ret, ctxErr, groupErr,
                 serveRet, accepted, openConns, ids, logged, finished>>
  /\ UNCHANGED <<colVars, arrVars>>

\* flush that forgets c.buf.Reset() after a complete write.
FlushResultNoReset(buf, n, werr) ==
  IF werr # "nil" THEN [err |-> "write", buf |-> buf]
  ELSE IF n # Len(buf) THEN [err |-> "ErrShortWrite", buf |-> buf]
  ELSE [err |-> "nil", buf |-> buf]

\* flush without the comparison of n with len(c.buf.Buf): a short write that
\* reports no error passes for a complete one.
FlushResultNoShortCheck(buf, n, werr) ==
  IF werr # "nil" THEN [err |-> "write", buf |-> buf]
  ELSE [err |-> "nil", buf |-> <<>>]

\* ServerConn.flush on the result (n, werr) of conn.Write(c.buf.Buf): the
\* error returned and the buffer left behind.
FlushResult(buf, n, werr) ==
  IF werr # "nil" THEN [err |-> "write", buf |-> buf]
  ELSE IF n # Len(buf) THEN [err |-> "ErrShortWrite", buf |-> buf]
  ELSE [err |-> "nil", buf |-> <<>>]

\* The flush of the handshake (server Hello) or of handlePing (Pong): the
\* transport takes the first n bytes of the buffer.
Flush(w) ==
  /\ pc[w] \in {"flush_hello", "flush_pong"}
  /\ \E n \in 0..Len(sconn[w].buf), werr \in {"nil", "write"} :
       LET r == FlushResult(sconn[w].buf, n, werr)
           c == [sconn[w] EXCEPT !.out = @ \o SubSeq(sconn[w].buf, 1, n),
                                 !.buf = r.buf,
                                 !.werr = werr]
       IN IF r.err # "nil" THEN ConnFail(w, c, r.err)
          ELSE /\ sconn' = [sconn EXCEPT ![w] = [c EXCEPT !.flushes = @ + 1]]
               /\ pc' = [pc EXCEPT ![w] = "ready"]
  /\ UNCHANGED <<optWorkers, workers, connCounter, spawned, ret, ctxErr, groupErr,
                 serveRet, accepted, openConns, ids, logged, finished>>
  /\ UNCHANGED <<colVars, arrVars>>

\* handlePacket with a Hello case that falls through to the Ping handler.
HandlePacketHelloAsPing(p) ==
  IF p \in {ClientCodePing, ClientCodeHello} THEN "handlePing" ELSE "not_implemented"

\* handlePacket that answers every valid client code like a Ping.
HandlePacketAll(p) == "handlePing"

\* ServerConn.handlePacket: the handler chosen for a valid client code.
HandlePacket(p) == IF p = ClientCodePing THEN "handlePing" ELSE "not_implemented"

\* A packet loop that tolerates an unrecognized code: it skips the packet and
\* reads the next one.
ReadyPacketSkipUnknown(w) ==
  /\ pc[w] = "ready"
  /\ \E rd \in ReadResults :
       /\ rd.err = "nil" => Len(sconn[w].in) < MaxPackets
       /\ LET p == Packet(rd)
              c == [sconn[w] EXCEPT !.in = Consumed(sconn[w], rd), !.eos = rd.eos]
          IN IF p.err = "bad_code"
               THEN /\ sconn' = [sconn EXCEPT ![w] = c]
                    /\ pc' = pc
             ELSE IF p.err # "nil" THEN ConnFail(w, c, p.err)
             ELSE IF HandlePacket(p.code) = "handlePing"
               THEN /\ sconn' = [sconn EXCEPT ![w] = [c EXCEPT !.buf = EncodePong(c.buf)]]
                    /\ pc' = [pc EXCEPT ![w] = "flush_pong"]
               ELSE ConnFail(w, c, "not_implemented")
  /\ UNCHANGED <<optWorkers, workers, connCounter, spawned, ret, ctxErr, groupErr,
                 serveRet, accepted, openConns, ids, logged, finished>>
  /\ UNCHANGED <<colVars, arrVars>>

\* One iteration of Handle's loop: read a packet code and dispatch it;
\* handlePing encodes Pong into the buffer, the flush follows. A peer sends
\* at most MaxPackets packet codes; after that its stream ends or fails.
ReadyPacket(w) ==
  /\ pc[w] = "ready"
  /\ \E rd \in ReadResults :
       /\ rd.err = "nil" => Len(sconn[w].in) < MaxPackets
       /\ LET p == Packet(rd)
              c == [sconn[w] EXCEPT !.in = Consumed(sconn[w], rd), !.eos = rd.eos]
          IN IF p.err # "nil" THEN ConnFail(w, c, p.err)
             ELSE IF HandlePacket(p.code) = "handlePing"
               THEN /\ sconn' = [sconn EXCEPT ![w] = [c EXCEPT !.buf = EncodePong(c.buf)]]
                    /\ pc' = [pc EXCEPT ![w] = "flush_pong"]
               ELSE ConnFail(w, c, "not_implemented")
  /\ UNCHANGED <<optWorkers, workers, connCounter, spawned, ret, ctxErr, groupErr,
                 serveRet, accepted, openConns, ids, logged, finished>>
  /\ UNCHANGED <<colVars, arrVars>>

\* serve that compares with io.EOF instead: an error the Reader never returns.
IsPlainEOF(err) == err = "EOF"

\* errors.Is(err, io.ErrUnexpectedEOF) in serve.
IsUnexpectedEOF(err) == err = "ErrUnexpectedEOF"

\* serve that returns the connection's error instead of logging it.
HandledReturnsError(w) ==
  /\ pc[w] = "handled"
  /\ finished' = finished + 1
  /\ sconn' = [sconn EXCEPT ![w] = NoConn]
  /\ IF sconn[w].err # "nil" /\ ~IsUnexpectedEOF(sconn[w].err)
       THEN WorkerReturn(w, [kind |-> "handle", by |-> w])
       ELSE /\ pc' = [pc EXCEPT ![w] = "serve_top"]
            /\ UNCHANGED <<ret, groupErr, ctxErr>>
  /\ UNCHANGED <<optWorkers, workers, connCounter, spawned, serveRet, accepted,
                 openConns, ids,
                 logged>>
  /\ UNCHANGED <<colVars, arrVars>>

\* serve after s.handle returned: an error other than unexpected EOF is
\* logged; either way the loop continues and the connection is dropped.
\* Neither handle nor serve calls Close on the accepted transport connection.
Handled(w) ==
  /\ pc[w] = "handled"
  /\ logged' = IF sconn[w].err # "nil" /\ ~IsUnexpectedEOF(sconn[w].err)
                 THEN logged + 1
                 ELSE logged
  /\ finished' = finished + 1
  /\ sconn' = [sconn EXCEPT ![w] = NoConn]
  /\ pc' = [pc EXCEPT ![w] = "serve_top"]
  /\ UNCHANGED <<optWorkers, workers, connCounter, spawned, ret, ctxErr, groupErr,
                 serveRet, accepted, openConns, ids>>
  /\ UNCHANGED <<colVars, arrVars>>

Next ==
  \/ ServeGo
  \/ ServeWait
  \/ \E w \in WorkerIds : ServeTop(w)
  \/ \E w \in WorkerIds : AcceptOk(w)
  \/ \E w \in WorkerIds : AcceptFail(w)
  \/ \E w \in WorkerIds : HandleStart(w)
  \/ \E w \in WorkerIds : Handshake(w)
  \/ \E w \in WorkerIds : HelloDecode(w)
  \/ \E w \in WorkerIds : Flush(w)
  \/ \E w \in WorkerIds : ReadyPacket(w)
  \/ \E w \in WorkerIds : Handled(w)

Spec == Init /\ [][Next]_vars


\* The fairness the scheduler gives the pool: a goroutine that can take a step
\* that does not wait for the peer or the listener (the loop of Serve, g.Wait,
\* the check of ctx.Err(), the start of handle, a write, the return of handle)
\* eventually takes it. Accept and the reads wait for the outside world.
FairSpec ==
  /\ Spec
  /\ WF_vars(ServeGo)
  /\ WF_vars(ServeWait)
  /\ \A w \in WorkerIds :
       /\ WF_vars(ServeTop(w))
       /\ WF_vars(HandleStart(w))
       /\ WF_vars(Flush(w))
       /\ WF_vars(Handled(w))

(***************************************************************************)
(* ColEnum16: the generated Enum16 column.                                 *)
(***************************************************************************)
\* The Enum16 values columns are built from: both ends of int16, -1, 0 and a
\* value whose two bytes differ.
Enum16Vals == {-32768, -1, 0, 258}

\* uint16(v) for an Enum16 (int16) v, and Enum16(u) for a uint16 u.
ToUint16(v) == v % 65536
ToEnum16(u) == IF u >= 32768 THEN u - 65536 ELSE u

\* bin.PutUint16 and bin.Uint16: little-endian.
PutUint16(u) == <<u % 256, u \div 256>>
Uint16(b) == b[1] + 256 * b[2]

\* EncodeColumn with an offset that is never advanced: every value is written
\* over the first one.
EncodeColumnNoAdvance(c, b) ==
  [i \in 1..(Len(b) + 2 * Len(c)) |->
     IF i <= Len(b) THEN b[i]
     ELSE IF Len(c) > 0 /\ i - Len(b) <= 2
       THEN PutUint16(ToUint16(c[Len(c)]))[i - Len(b)]
       ELSE 0]

\* ColEnum16.EncodeColumn: the buffer grown by size*len(c) bytes, value k
\* written at offset len(b.Buf) + size*k.
EncodeColumn(c, b) ==
  [i \in 1..(Len(b) + 2 * Len(c)) |->
     IF i <= Len(b) THEN b[i]
     ELSE LET k == (i - Len(b) - 1) \div 2
              j == (i - Len(b) - 1) % 2
          IN PutUint16(ToUint16(c[k + 1]))[j + 1]]

\* A *Buffer argument: nil, or a pointer to a Buffer whose Buf is b.
NilBuffer == [nil |-> TRUE, Buf |-> <<>>]
BufferAt(b) == [nil |-> FALSE, Buf |-> b]

\* ColEnum16.EncodeColumn(b) on the pointer b: offset := len(b.Buf) reads
\* through b first, whatever the column holds; a nil b is a nil pointer
\* dereference, a run-time panic.
EncodeColumnPtr(c, b) ==
  IF b.nil THEN [panic |-> TRUE, Buf |-> b.Buf]
  ELSE [panic |-> FALSE, Buf |-> EncodeColumn(c, b.Buf)]

\* Reader.ReadRaw(n): exactly n bytes, or an unexpected end of stream.
ReadRaw(r, n) ==
  IF Len(r) < n
    THEN [data |-> <<>>, rest |-> <<>>, err |-> "ErrUnexpectedEOF"]
    ELSE [data |-> SubSeq(r, 1, n), rest |-> SubSeq(r, n + 1, Len(r)), err |-> "nil"]

\* The loop of DecodeColumn: one value appended per size bytes of data.
RECURSIVE AppendDecoded(_, _, _)
AppendDecoded(v, data, i) ==
  IF i >= Len(data) THEN v
  ELSE AppendDecoded(Append(v, ToEnum16(Uint16(SubSeq(data, i + 1, i + 2)))), data, i + 2)

\* DecodeColumn that starts from an empty slice instead of v := *c: the rows
\* the column held are dropped.
DecodeColumnFromEmpty(c, r, rows) ==
  LET rr == ReadRaw(r, rows * 2) IN
    IF rr.err # "nil" THEN [col |-> c, rest |-> rr.rest, err |-> rr.err]
    ELSE [col |-> AppendDecoded(<<>>, rr.data, 0), rest |-> rr.rest, err |-> "nil"]

\* DecodeColumn without the check of ReadRaw's error: it decodes whatever
\* data came back and returns nil.
DecodeColumnNoErrCheck(c, r, rows) ==
  LET rr == ReadRaw(r, rows * 2) IN
    [col |-> AppendDecoded(c, rr.data, 0), rest |-> rr.rest, err |-> "nil"]

\* ColEnum16.DecodeColumn(r, rows) on the column c.
DecodeColumn(c, r, rows) ==
  LET rr == ReadRaw(r, rows * 2) IN
    IF rr.err # "nil" THEN [col |-> c, rest |-> rr.rest, err |-> rr.err]
    ELSE [col |-> AppendDecoded(c, rr.data, 0), rest |-> rr.rest, err |-> "nil"]

\* Reset that keeps the first row: (*c)[:1] on a column that has one.
ResetKeepsFirst(c) == SubSeq(c, 1, IF Len(c) > 0 THEN 1 ELSE 0)

\* ColEnum16.Reset.
Reset(c) == SubSeq(c, 1, 0)

\* ColEnum16.Rows.
Rows(c) == Len(c)

\* data.Append(v): a value is appended to the column to encode.
ColAppend ==
  /\ encCount = 0
  /\ colOp # "panic"
  /\ Rows(colData) < MaxRows
  /\ \E v \in Enum16Vals : colData' = Append(colData, v)
  /\ colOp' = "append"
  /\ UNCHANGED <<encBuf, encCount, rdr, dec, decRows, decErr, reused>>
  /\ UNCHANGED <<srvVars, arrVars>>

\* data.EncodeColumn(&buf), on a buffer that is empty or holds an earlier
\* encoding of the column.
ColEncode ==
  /\ encCount < 2
  /\ colOp \in {"new", "append", "encode"}
  /\ encBuf' = EncodeColumnPtr(colData, BufferAt(encBuf)).Buf
  /\ encCount' = encCount + 1
  /\ colOp' = "encode"
  /\ UNCHANGED <<colData, rdr, dec, decRows, decErr, reused>>
  /\ UNCHANGED <<srvVars, arrVars>>

\* data.EncodeColumn(nil), as the ZeroRowsEncode test calls it. A panic ends
\* the run: no later call is made on the column, the buffer or the reader.
ColEncodeNil ==
  /\ encCount < 2
  /\ colOp \in {"new", "append", "encode"}
  /\ LET r == EncodeColumnPtr(colData, NilBuffer) IN
       colOp' = IF r.panic THEN "panic" ELSE "encode_nil"
  /\ UNCHANGED <<colData, encBuf, encCount, rdr, dec, decRows, decErr, reused>>
  /\ UNCHANGED <<srvVars, arrVars>>

\* NewReader(bytes.NewReader(b)) for b the buffer or a prefix of it.
ColNewReader ==
  /\ encCount > 0
  /\ colOp # "panic"
  /\ \E k \in 0..Len(encBuf) : rdr' = SubSeq(encBuf, 1, k)
  /\ colOp' = "reader"
  /\ UNCHANGED <<colData, encBuf, encCount, dec, decRows, decErr, reused>>
  /\ UNCHANGED <<srvVars, arrVars>>

\* dec.DecodeColumn(r, rows).
ColDecode ==
  /\ colOp \in {"reader", "decode", "dec_append", "reset"}
  /\ \E rows \in 0..MaxRows :
       LET d == DecodeColumn(dec, rdr, rows) IN
         /\ Rows(d.col) <= MaxRows
         /\ dec' = d.col
         /\ rdr' = d.rest
         /\ decErr' = d.err
         /\ decRows' = rows
  /\ colOp' = "decode"
  /\ UNCHANGED <<colData, encBuf, encCount, reused>>
  /\ UNCHANGED <<srvVars, arrVars>>

\* The values appended by hand to the column that is decoded into.
DecAppendVals == {-1}

\* dec.Append(v): a value is appended to the column that is decoded into.
ColDecAppend ==
  /\ colOp \in {"reader", "decode", "reset"}
  /\ Rows(dec) < MaxRows
  /\ \E v \in DecAppendVals : dec' = Append(dec, v)
  /\ colOp' = "dec_append"
  /\ UNCHANGED <<colData, encBuf, encCount, rdr, decRows, decErr, reused>>
  /\ UNCHANGED <<srvVars, arrVars>>

\* dec.Reset().
ColReset ==
  /\ colOp \in {"decode", "dec_append"}
  /\ dec' = Reset(dec)
  /\ reused' = TRUE
  /\ colOp' = "reset"
  /\ UNCHANGED <<colData, encBuf, encCount, rdr, decRows, decErr>>
  /\ UNCHANGED <<srvVars, arrVars>>

ColNext ==
  \/ ColAppend
  \/ ColEncode
  \/ ColEncodeNil
  \/ ColNewReader
  \/ ColDecode
  \/ ColDecAppend
  \/ ColReset

\* The column on its own: values appended, encoded, read back.
ColSpecInit == Init /\ optWorkers = 0

ColSpec == ColSpecInit /\ [][ColNext]_vars

(***************************************************************************)
(* ColArr over ColEnum16: Array(Enum16).                                   *)
(***************************************************************************)
\* uint64(n) for n = len(*d): a length is a non-negative int below 2^63, the
\* conversion keeps its value.
Uint64OfLen(n) == n

\* AppendEnum16 that records the length of the appended slice instead of the
\* inner column's new length.
AppendEnum16SliceLen(c, data) ==
  [Data |-> c.Data \o data,
   Offsets |-> Append(c.Offsets, Uint64OfLen(Len(data)))]

\* ColArr.AppendEnum16(data): the slice appended to the inner column, then
\* the inner column's length appended to Offsets.
AppendEnum16(c, data) ==
  LET d == c.Data \o data IN
    [Data |-> d, Offsets |-> Append(c.Offsets, Uint64OfLen(Len(d)))]

\* The slices given to AppendEnum16: every length up to MaxSlice, the empty
\* slice included.
ArrVals == {-1, 258}
Slices == UNION {[1..n -> ArrVals] : n \in 0..MaxSlice}

\* The rows constant of TestColEnum16Array and the slice of iteration i.
TestRows == 50
TestSlice(i) == <<i, i + 1, i + 2>>

\* data.AppendEnum16(s) for a slice s of any kind.
ArrAppend ==
  /\ arrMode \in {"new", "any"}
  /\ Len(arrOffsets) < MaxAppends
  /\ \E s \in Slices :
       LET c == AppendEnum16([Data |-> arrData, Offsets |-> arrOffsets], s) IN
         /\ arrData' = c.Data
         /\ arrOffsets' = c.Offsets
         /\ arrLens' = Append(arrLens, Len(s))
  /\ arrMode' = "any"
  /\ UNCHANGED <<srvVars, colVars>>

\* One iteration of the loop of TestColEnum16Array: iteration i, counted from
\* 0, appends [i, i+1, i+2].
ArrTestAppend ==
  /\ arrMode \in {"new", "test"}
  /\ Len(arrOffsets) < TestRows
  /\ LET s == TestSlice(Len(arrOffsets))
         c == AppendEnum16([Data |-> arrData, Offsets |-> arrOffsets], s)
     IN /\ arrData' = c.Data
        /\ arrOffsets' = c.Offsets
        /\ arrLens' = Append(arrLens, Len(s))
  /\ arrMode' = "test"
  /\ UNCHANGED <<srvVars, colVars>>

ArrNext ==
  \/ ArrAppend
  \/ ArrTestAppend

\* The array column on its own.
ArrSpec == ColSpecInit /\ [][ArrNext]_vars

(***************************************************************************)
(* Properties of the connection state machine.                             *)
(***************************************************************************)
\* The state of the connection state machine worker w is driving.
ConnState(w) ==
  CASE pc[w] \in {"handshake", "hello_decode", "flush_hello"} -> "AwaitingHandshake"
    [] pc[w] \in {"ready", "flush_pong"} -> "Ready"
    [] pc[w] = "handled" -> "Closed"
    [] OTHER -> "None"

PongsWritten(c) == Cardinality({i \in DOMAIN c.out : c.out[i] = "Pong"})
PingsRead(c) == Cardinality({i \in DOMAIN c.in : i > 1 /\ c.in[i] = ClientCodePing})

\* C1: a connection whose first packet code is a valid client code other than
\* Hello, or no valid client code, fails during the handshake (Handle returns
\* the error of that check), never reaches the Ready loop, and gets no byte
\* written to it: nothing is flushed and nothing is left in the buffer.
FirstPacketNotHelloFails ==
  \A w \in WorkerIds :
    LET c == sconn[w] IN
      (Len(c.in) >= 1 /\ c.in[1] # ClientCodeHello) =>
        /\ ConnState(w) = "Closed"
        /\ c.err = IF c.in[1] \in 0..5 THEN "unexpected_packet" ELSE "bad_code"
        /\ Len(c.in) = 1
        /\ c.out = <<>>
        /\ c.buf = <<>>
        /\ c.flushes = 0
        /\ c.client = "none"

\* C1 witness: one connection failed on a valid code that is not Hello while
\* another failed on a value outside the enumeration.
FirstPacketNotHelloSeen ==
  \E v, w \in WorkerIds :
    /\ sconn[v].in = <<ClientCodePing>> /\ sconn[v].err = "unexpected_packet"
    /\ sconn[w].in = <<6>> /\ sconn[w].err = "bad_code"

\* C2, in every state: no Pong is written without a Ping read before it; in
\* Ready, between packets, the Pongs written are exactly the Pings read; while
\* a Pong is being flushed exactly one Ping is unanswered and the buffer holds
\* exactly its Pong.
PingPongInv ==
  \A w \in WorkerIds :
    LET c == sconn[w] IN
      /\ PongsWritten(c) <= PingsRead(c)
      /\ pc[w] = "ready" =>
           /\ PongsWritten(c) = PingsRead(c)
           /\ PingsRead(c) = Len(c.in) - 1
           /\ c.buf = <<>>
      /\ pc[w] = "flush_pong" =>
           /\ PongsWritten(c) = PingsRead(c) - 1
           /\ c.buf = <<"Pong">>
           /\ c.in[Len(c.in)] = ClientCodePing

\* C2, every step: a Ping read in Ready leads to the flush of its Pong, and
\* when the transport takes the whole buffer without error the connection is
\* back in Ready with exactly one more Pong written.
PingPongStep ==
  \A w \in WorkerIds :
    LET c == sconn[w]
        d == sconn'[w]
    IN /\ (pc[w] = "ready" /\ Len(d.in) = Len(c.in) + 1
             /\ d.in[Len(d.in)] = ClientCodePing) => pc'[w] = "flush_pong"
       /\ (pc[w] = "flush_pong" /\ d.out = c.out \o c.buf /\ d.err # "write") =>
            /\ pc'[w] = "ready"
            /\ PongsWritten(d) = PongsWritten(c) + 1
            /\ d.err = "nil"

\* C2: on a connection past the handshake every Ping is answered by exactly
\* one Pong while the transport accepts full writes, the connection stays in
\* Ready, and no Pong is written without a Ping.
PingAnsweredByOnePong == []PingPongInv /\ [][PingPongStep]_vars

\* C2 witness: two Pings handled, two Pongs written after the server Hello,
\* connection in Ready.
TwoPingsTwoPongs ==
  \E w \in WorkerIds :
    /\ pc[w] = "ready"
    /\ sconn[w].in = <<ClientCodeHello, ClientCodePing, ClientCodePing>>
    /\ sconn[w].out = <<"ServerHello", "ServerInfo", "Pong", "Pong">>

\* C3, in every state: a code outside the closed set of client codes is the
\* last thing the connection read, and the connection is Closed with the
\* bad-code error; a connection is Closed exactly when Handle returned an error.
FatalInv ==
  \A w \in WorkerIds :
    LET c == sconn[w] IN
      /\ \A i \in DOMAIN c.in :
           c.in[i] \notin 0..5 =>
             /\ i = Len(c.in)
             /\ ConnState(w) = "Closed"
             /\ c.err = "bad_code"
      /\ c.err # "nil" <=> ConnState(w) = "Closed"

\* C3, every step: once Closed (after a bad code, a decode error or a
\* transport error) nothing more is read from or written to the connection;
\* the only thing that happens to it is that the worker drops it.
FatalStep ==
  \A w \in WorkerIds :
    pc[w] = "handled" =>
      \/ sconn'[w] = sconn[w] /\ pc'[w] = pc[w]
      \/ sconn'[w] = NoConn /\ pc'[w] = "serve_top"

\* C3: an unrecognized packet code, like a decode or transport error, is
\* fatal for the connection in any state, and nothing is read or written after.
UnknownCodeIsFatal == []FatalInv /\ [][FatalStep]_vars

\* C3 witness: a connection in Ready read an unrecognized code after a Ping
\* and is Closed.
UnknownCodeInReadySeen ==
  \E w \in WorkerIds :
    /\ sconn[w].in = <<ClientCodeHello, ClientCodePing, 6>>
    /\ sconn[w].err = "bad_code"
    /\ pc[w] = "handled"

\* The bytes the server owes for the i-th packet code it read.
ReplyTo(i, code) ==
  IF i = 1 /\ code = ClientCodeHello THEN <<"ServerHello", "ServerInfo">>
  ELSE IF i > 1 /\ code = ClientCodePing THEN <<"Pong">>
  ELSE <<>>

RECURSIVE RepliesUpTo(_, _)
RepliesUpTo(in, k) ==
  IF k = 0 THEN <<>> ELSE RepliesUpTo(in, k - 1) \o ReplyTo(k, in[k])

IsPrefix(s, t) == Len(s) <= Len(t) /\ SubSeq(t, 1, Len(s)) = s

\* C4, in every state: at most one packet is in flight (read but its reply not
\* yet flushed), and what has been written is a prefix of the replies to the
\* packets read, in the order they were read.
OrderInv ==
  \A w \in WorkerIds :
    LET c == sconn[w] IN
      /\ c.flushes <= Len(c.in)
      /\ Len(c.in) <= c.flushes + 1
      /\ IsPrefix(c.out, RepliesUpTo(c.in, Len(c.in)))

\* C4, every step: when a packet code is read, the replies to all packets read
\* before it have been flushed completely and the buffer is empty.
OrderStep ==
  \A w \in WorkerIds :
    LET c == sconn[w] IN
      Len(sconn'[w].in) = Len(c.in) + 1 =>
        /\ c.buf = <<>>
        /\ c.flushes = Len(c.in)
        /\ c.out = RepliesUpTo(c.in, Len(c.in))
        /\ SubSeq(sconn'[w].in, 1, Len(c.in)) = c.in

\* C4: processing on one connection is sequential and ordered.
SequentialOrdered == []OrderInv /\ [][OrderStep]_vars

\* C4 witness: three packets read and three replies flushed, in order.
ThreeRepliesInOrder ==
  \E w \in WorkerIds :
    /\ Len(sconn[w].in) = 3
    /\ sconn[w].flushes = 3
    /\ sconn[w].out = <<"ServerHello", "ServerInfo", "Pong", "Pong">>

(***************************************************************************)
(* Properties of the worker pool.                                          *)
(***************************************************************************)
\* The workers Serve has started, and those holding an accepted connection
\* whose handle has not returned.
Started == {w \in WorkerIds : pc[w] # "unspawned"}
Serving ==
  {w \in WorkerIds : pc[w] \in {"handle", "handshake", "hello_decode", "flush_hello",
                                "ready", "flush_pong", "handled"}}

\* C5: Serve runs as many workers as configured (100 for the option 0), never
\* more, each worker holds at most one connection, and the connections
\* accepted but not finished never outnumber the workers, so a connection
\* beyond that is accepted only after another one has finished.
InFlightBoundedByWorkers ==
  /\ optWorkers = 0 => workers = 100
  /\ optWorkers > 0 => workers = optWorkers
  /\ spawned <= workers
  /\ Cardinality(Started) = spawned
  /\ serveRet # NotReturned => spawned = workers
  /\ accepted - finished = Cardinality(Serving)
  /\ accepted - finished <= workers

\* C5 witness: a pool of one worker has accepted a second connection, after
\* its first one finished.
SecondConnAfterFirstFinished ==
  /\ workers = 1
  /\ accepted = 2
  /\ finished = 1
  /\ Cardinality(Serving) = 1

\* C6, every step: when handle has returned an error for worker w's
\* connection, w does not return from serve but goes back to the top of its
\* accept loop; no worker's return value, the errgroup's error, the
\* cancellation signal and no other worker's position or connection change.
ConnErrorStaysLocal ==
  \A w \in WorkerIds :
    (pc[w] = "handled" /\ pc'[w] # "handled") =>
      /\ sconn[w].err # "nil"
      /\ pc'[w] = "serve_top"
      /\ ret' = ret
      /\ groupErr' = groupErr
      /\ ctxErr' = ctxErr
      /\ serveRet' = serveRet
      /\ \A v \in WorkerIds \ {w} : pc'[v] = pc[v] /\ sconn'[v] = sconn[v]

\* C6, in every state: a worker returns only an accept error or the
\* cancellation, and the signal is raised only by an accept error.
OnlyAcceptErrorsReturn ==
  /\ \A w \in WorkerIds :
       /\ ret[w].kind \in {"nil", "accept", "canceled"}
       /\ pc[w] = "returned" <=> ret[w].kind # "nil"
  /\ groupErr.kind \in {"nil", "accept"}
  /\ ctxErr.kind # "nil" <=> groupErr.kind = "accept"

\* C6: a per-connection error never propagates to the pool.
ConnErrorNeverPropagates == []OnlyAcceptErrorsReturn /\ [][ConnErrorStaysLocal]_vars

\* C6 witness: a worker whose connection failed with a logged error is
\* accepting again, nothing is cancelled and nobody has returned.
WorkerAcceptsAfterConnError ==
  \E w \in WorkerIds :
    /\ pc[w] = "accept"
    /\ finished >= 1
    /\ logged >= 1
    /\ ctxErr = NoErr
    /\ \A v \in WorkerIds : ret[v] = NoErr

\* C9, in every state: the values handed out by the counter are exactly 1..N
\* in order, one per connection whose handle has started, the counter equals
\* N, every accepted connection not yet counted is about to be, and no two
\* workers hold connections with the same identifier.
ConnIdsInv ==
  /\ Len(ids) = connCounter
  /\ \A i \in DOMAIN ids : ids[i] = i
  /\ accepted = connCounter + Cardinality({w \in WorkerIds : pc[w] = "handle"})
  /\ \A w \in Serving \ {v \in WorkerIds : pc[v] = "handle"} :
       sconn[w].id \in 1..connCounter
  /\ \A v, w \in Serving :
       (v # w /\ sconn[v].id # 0) => sconn[v].id # sconn[w].id

\* C9, every step: the counter only moves by one, in the step in which exactly
\* one connection takes the new value as its identifier; and no step changes
\* the position, the connection or the return value of two workers.
ConnIdsStep ==
  /\ connCounter' # connCounter =>
       /\ connCounter' = connCounter + 1
       /\ Cardinality({w \in WorkerIds :
                         sconn[w].id = 0 /\ sconn'[w].id = connCounter'}) = 1
  /\ \A v, w \in WorkerIds :
       v # w => ~(/\ <<pc[v], sconn[v], ret[v]>>' # <<pc[v], sconn[v], ret[v]>>
                  /\ <<pc[w], sconn[w], ret[w]>>' # <<pc[w], sconn[w], ret[w]>>)

\* C9: under every interleaving each accepted connection gets its own
\* identifier from one atomic increment, the identifiers are 1..N, and apart
\* from the counter the workers write only their own state.
ConnIdsUnique == []ConnIdsInv /\ [][ConnIdsStep]_vars

\* C9 witness: two workers serve two connections at the same time, with the
\* identifiers 1 and 2.
TwoConnsTwoIds ==
  \E v, w \in WorkerIds :
    /\ sconn[v].id = 1 /\ pc[v] \in {"handshake", "ready"}
    /\ sconn[w].id = 2 /\ pc[w] \in {"handshake", "ready"}
    /\ connCounter = 2

\* C7: once a worker has returned a fatal error (its Accept failed), every
\* worker eventually stops and Serve eventually returns that first error.
FatalErrorTearsDownPool ==
  [](groupErr.kind = "accept" =>
       <>(/\ \A w \in Started : pc[w] = "returned"
          /\ serveRet = groupErr))

\* C8: the signal is checked before each accept, so that once it is raised no
\* worker accepts a new connection, and raising it interrupts no connection
\* in flight.
NoAcceptAfterCancel ==
  [][/\ ctxErr.kind # "nil" => accepted' = accepted
     /\ (ctxErr.kind = "nil" /\ ctxErr'.kind # "nil") =>
          \A w \in Serving : pc'[w] = pc[w] /\ sconn'[w] = sconn[w]]_vars

(***************************************************************************)
(* Properties of the Enum16 column.                                        *)
(***************************************************************************)
\* C10, in every state: one EncodeColumn into an empty buffer produces two
\* bytes per row, the low byte first, of the value's two's complement.
Enum16Bytes ==
  encCount = 1 =>
    /\ Len(encBuf) = 2 * Len(colData)
    /\ \A i \in DOMAIN colData :
         LET u == IF colData[i] < 0 THEN colData[i] + 65536 ELSE colData[i] IN
           /\ encBuf[2 * i - 1] = u % 256
           /\ encBuf[2 * i] = u \div 256

\* C10, every step: DecodeColumn(r, len) into an empty column, from a reader
\* over exactly the bytes of that one encoding, succeeds and leaves the column
\* equal to the encoded one, with Rows() its length.
Enum16DecodeStep ==
  (/\ colOp' = "decode"
   /\ encCount = 1
   /\ dec = <<>>
   /\ rdr = encBuf
   /\ decRows' = Len(colData)) =>
     /\ decErr' = "nil"
     /\ dec' = colData
     /\ Rows(dec') = Len(colData)

\* C10: the round trip of the Enum16 column.
Enum16RoundTrip == []Enum16Bytes /\ [][Enum16DecodeStep]_vars

\* C10 witness: a column with a negative and a positive value made the round
\* trip through four bytes.
Enum16RoundTripSeen ==
  /\ colOp = "decode"
  /\ encCount = 1
  /\ colData = <<-32768, 258>>
  /\ encBuf = <<0, 128, 2, 1>>
  /\ decRows = 2
  /\ decErr = "nil"
  /\ dec = <<-32768, 258>>
  /\ rdr = <<>>

\* C11 as stated: whatever rows the column held, after a DecodeColumn(r, n)
\* that returns nil Rows() equals n.
RowsEqualsNAfterDecode ==
  [][(colOp' = "decode" /\ decErr' = "nil") => Rows(dec') = decRows']_vars

\* C11 amended: after a DecodeColumn(r, n) that returns nil, Rows() equals
\* the rows held before the call plus n, the old rows unchanged in front; it
\* equals n when the column was empty before the call.
RowsGrowByNAfterDecode ==
  [][(colOp' = "decode" /\ decErr' = "nil") =>
       /\ Rows(dec') = Rows(dec) + decRows'
       /\ SubSeq(dec', 1, Rows(dec)) = dec
       /\ (Rows(dec) = 0 => Rows(dec') = decRows')]_vars

\* C11 witness: a successful one-row decode into a column that already held
\* one row.
DecodeIntoNonEmptySeen ==
  /\ colOp = "decode"
  /\ decErr = "nil"
  /\ decRows = 1
  /\ Rows(dec) = 2

\* C12: DecodeColumn(r, rows) with rows > 0 from a source of fewer than
\* 2*rows bytes returns io.ErrUnexpectedEOF and leaves the column as it was;
\* DecodeColumn(r, 0) from an empty source returns nil and leaves the column
\* as it was.
TruncationDetected ==
  [][(colOp' = "decode") =>
       /\ (decRows' > 0 /\ Len(rdr) < 2 * decRows') =>
             (decErr' = "ErrUnexpectedEOF" /\ dec' = dec)
       /\ (decRows' = 0 /\ rdr = <<>>) =>
             (decErr' = "nil" /\ dec' = dec)]_vars

\* C12 witness: a two-row decode failed on a short source and the column
\* still holds the one row an earlier decode gave it.
TruncatedDecodeSeen ==
  /\ colOp = "decode"
  /\ decErr = "ErrUnexpectedEOF"
  /\ decRows = 2
  /\ Rows(dec) = 1

\* C13 as stated: every EncodeColumn call on a column with zero rows, with a
\* buffer or with nil, completes without failure and leaves the buffer's
\* bytes as they were (it appends zero bytes).
ZeroRowsEncodeIsNoOp ==
  [][(Rows(colData) = 0 /\ colOp' \in {"encode", "encode_nil", "panic"}) =>
       (colOp' # "panic" /\ encBuf' = encBuf)]_vars

\* C14, in every state: right after Reset() the column has no rows.
ResetEmpties == colOp = "reset" => Rows(dec) = 0

\* C14, every step: a DecodeColumn(r, rows) into the column just Reset gives
\* the values, the row count and the result that the same call gives on a
\* fresh (zero-value) column.
ResetDecodeAsFresh ==
  (colOp = "reset" /\ colOp' = "decode") =>
    LET fresh == DecodeColumn(<<>>, rdr, decRows') IN
      /\ dec' = fresh.col
      /\ Rows(dec') = Rows(fresh.col)
      /\ decErr' = fresh.err
      /\ decErr' = "nil" => Rows(dec') = decRows'

\* C14: Reset and reuse.
ResetAndReuse == []ResetEmpties /\ [][ResetDecodeAsFresh]_vars

\* C14 witness: a column that held rows from an Append and a decode was
\* Reset and then decoded the two rows of the input.
ResetThenDecodeSeen ==
  /\ colOp = "decode"
  /\ reused
  /\ decErr = "nil"
  /\ decRows = 2
  /\ Rows(dec) = 2
  /\ dec = colData
  /\ rdr = <<>>
  /\ encCount = 2

(***************************************************************************)
(* Properties of the Array(Enum16) column.                                 *)
(***************************************************************************)
\* The offset before the i-th one: 0 for the first.
PrevOffset(i) == IF i = 1 THEN 0 ELSE arrOffsets[i - 1]

\* C15: after any sequence of AppendEnum16 calls, Offsets has one entry per
\* call, is non-decreasing, each offset exceeds the previous one (0 for the
\* first) by the length of the slice of that call, and the last offset is the
\* inner column's Rows(); the test's loop gives the offsets 3, 6, ..., 150.
ArrayOffsetsInv ==
  /\ Len(arrOffsets) = Len(arrLens)
  /\ \A i \in DOMAIN arrOffsets :
       /\ arrOffsets[i] >= PrevOffset(i)
       /\ arrOffsets[i] - PrevOffset(i) = arrLens[i]
  /\ Len(arrOffsets) > 0 => arrOffsets[Len(arrOffsets)] = Rows(arrData)
  /\ arrMode = "test" => \A i \in DOMAIN arrOffsets : arrOffsets[i] = 3 * i
  /\ (arrMode = "test" /\ Len(arrOffsets) = TestRows) =>
       arrOffsets[TestRows] = 150

\* C15 witness: the test's loop has run its 50 iterations.
ArrayTestFilled ==
  /\ arrMode = "test"
  /\ Len(arrOffsets) = 50
  /\ arrOffsets[1] = 3
  /\ arrOffsets[50] = 150
  /\ Rows(arrData) = 150

(***************************************************************************)
(* Properties of flush, the handshake and the end of a connection.         *)
(***************************************************************************)
\* The bytes the transport took in this step of worker w.
Written(w) == Len(sconn'[w].out) - Len(sconn[w].out)

\* C16, every step that is a flush: flush returns nil only when the
\* transport reported no error and took every byte of the buffer, and then
\* the buffer is empty afterwards; when the transport reports an error flush
\* returns the write error, when it reports no error but fewer bytes flush
\* returns the short-write error; in both cases the buffer is left as it
\* was and the connection is over.
FlushStep ==
  \A w \in WorkerIds :
    (pc[w] \in {"flush_hello", "flush_pong"} /\ pc'[w] # pc[w]) =>
      LET buf == sconn[w].buf
          c == sconn'[w]
      IN /\ pc'[w] \in {"ready", "handled"}
         /\ pc'[w] = "ready" <=> (c.werr = "nil" /\ Written(w) = Len(buf))
         /\ pc'[w] = "ready" =>
              (c.err = "nil" /\ c.buf = <<>> /\ c.out = sconn[w].out \o buf)
         /\ c.werr # "nil" => (c.err = "write" /\ c.buf = buf)
         /\ (c.werr = "nil" /\ Written(w) < Len(buf)) =>
              (c.err = "ErrShortWrite" /\ c.buf = buf)
         /\ c.buf # buf => pc'[w] = "ready"

\* C16, every step after a failed flush: the worker drops the connection;
\* nothing more is written to it.
NoRetryStep ==
  \A w \in WorkerIds :
    (pc[w] = "handled" /\ sconn[w].err \in {"write", "ErrShortWrite"}
       /\ sconn'[w] # sconn[w]) =>
      (sconn'[w] = NoConn /\ pc'[w] = "serve_top")

\* C16: flush is all-or-error.
FlushAllOrError == [][FlushStep]_vars /\ [][NoRetryStep]_vars

\* C16 witness: the transport took one of the two parts of the server Hello
\* and reported no error; the connection is over with a short-write error and
\* the buffer still holds both parts.
ShortWriteSeen ==
  \E w \in WorkerIds :
    /\ pc[w] = "handled"
    /\ sconn[w].err = "ErrShortWrite"
    /\ sconn[w].werr = "nil"
    /\ sconn[w].out = <<"ServerHello">>
    /\ sconn[w].buf = <<"ServerHello", "ServerInfo">>

\* The positions of the item x in the bytes written to a connection.
Positions(out, x) == {i \in DOMAIN out : out[i] = x}

\* C17, in every state: a connection was sent at most one server Hello, at
\* the very start of what was written to it, and a Pong only after the whole
\* server Hello; the client's handshake info is stored exactly when the
\* client Hello was decoded, which happens before the server Hello is encoded.
HelloOnceInv ==
  \A w \in WorkerIds :
    LET c == sconn[w] IN
      /\ Positions(c.out, "ServerHello") \subseteq {1}
      /\ Positions(c.out, "ServerInfo") \subseteq {2}
      /\ Positions(c.out, "Pong") # {} =>
           (Len(c.out) >= 2 /\ SubSeq(c.out, 1, 2) = <<"ServerHello", "ServerInfo">>
              /\ \A i \in Positions(c.out, "Pong") : i > 2)
      /\ c.out # <<>> => c.client = "hello"
      /\ c.client = "hello" => (c.in # <<>> /\ c.in[1] = ClientCodeHello)

\* C17, every step: a Hello packet read in Ready writes nothing, encodes
\* nothing, leaves the stored client info as it was and ends the connection;
\* once stored, the client info never changes while the connection lasts.
HelloOnceStep ==
  \A w \in WorkerIds :
    /\ (pc[w] = "ready" /\ sconn'[w].in = Append(sconn[w].in, ClientCodeHello)) =>
         /\ pc'[w] = "handled"
         /\ sconn'[w].err = "not_implemented"
         /\ sconn'[w].out = sconn[w].out
         /\ sconn'[w].buf = sconn[w].buf
         /\ sconn'[w].client = sconn[w].client
    /\ (sconn[w].client = "hello" /\ pc'[w] # "serve_top") =>
         sconn'[w].client = "hello"

\* C17: the Hello exchange happens once and first.
HelloExactlyOnce == []HelloOnceInv /\ [][HelloOnceStep]_vars

\* C17 witness: after the handshake and a Ping, a second Hello ended the
\* connection; one server Hello and one Pong were written.
SecondHelloSeen ==
  \E w \in WorkerIds :
    /\ pc[w] = "handled"
    /\ sconn[w].in = <<ClientCodeHello, ClientCodePing, ClientCodeHello>>
    /\ sconn[w].err = "not_implemented"
    /\ sconn[w].out = <<"ServerHello", "ServerInfo", "Pong">>
    /\ sconn[w].client = "hello"

\* The step in which worker w's serve gets the result of s.handle.
HandleReturned(w) == pc[w] = "handled" /\ pc'[w] # "handled"

NoFinishedConnOpen ==
  (\A w \in WorkerIds : pc[w] # "serve_top") => openConns = accepted - finished

====
